---- MODULE Spec2Model ----
(***************************************************************************)
(* A model of the plan-buddy server (src/server/index.ts): the SSE        *)
(* streaming handlers POST /plan and POST /plan/stream, the legacy polling *)
(* path POST /plan/start + generatePlanBackground + GET /plan/status, and  *)
(* the text pipeline they share (fence stripping, JSON.parse, per-task     *)
(* defaulting).                                                            *)
(*                                                                         *)
(* Text is a sequence of one-character strings.  The alphabet of upstream  *)
(* text has no backslash, so string escapes only occur in what the server  *)
(* itself produces with JSON.stringify.                                    *)
(***************************************************************************)
EXTENDS Integers, Sequences, FiniteSets, TLC

(***************************************************************************)
(* Bounds of the model.                                                    *)
(***************************************************************************)
\* fragments one upstream stream yields before it must complete or raise
MaxFragments == 3
\* plan ids POST /plan/start can issue
MaxPlans == 2

(***************************************************************************)
(* Characters and small helpers.                                           *)
(***************************************************************************)
\* String.prototype.trim() white space that occurs in the alphabet
TrimWS == {" ", "\n", "\t", "\r"}

\* JSON white space (ECMA-404): space, LF, CR, HT
JsonWS == {" ", "\n", "\t", "\r"}

Digits == <<"0", "1", "2", "3", "4", "5", "6", "7", "8", "9">>
DigitSet == {Digits[i] : i \in 1..10}

UpperLetters == <<"A", "B", "C", "D", "E", "F", "G", "H", "I", "J", "K", "L", "M",
                  "N", "O", "P", "Q", "R", "S", "T", "U", "V", "W", "X", "Y", "Z">>
LowerLetters == <<"a", "b", "c", "d", "e", "f", "g", "h", "i", "j", "k", "l", "m",
                  "n", "o", "p", "q", "r", "s", "t", "u", "v", "w", "x", "y", "z">>

UpperSet == {UpperLetters[i] : i \in DOMAIN UpperLetters}

\* one character of String.prototype.toLowerCase(); also the folding of the
\* /i flag of /```json/i
ToLower(c) ==
    IF c \in UpperSet
    THEN LowerLetters[CHOOSE i \in 1..26 : UpperLetters[i] = c]
    ELSE c

\* the character U+0060 (the parser of this module's language cannot read it
\* inside a string, so it has a name)
Backtick == "BACKTICK"
Quote == "\""
Backslash == "\\"

Fence == <<Backtick, Backtick, Backtick>>
JsonFence == <<Backtick, Backtick, Backtick, "j", "s", "o", "n">>

\* pattern p occurs in t at position i (case-insensitively when ci)
MatchAt(t, i, p, ci) ==
    /\ i >= 1
    /\ i + Len(p) - 1 <= Len(t)
    /\ \A k \in 1..Len(p) :
          IF ci THEN ToLower(t[i + k - 1]) = p[k] ELSE t[i + k - 1] = p[k]

(***************************************************************************)
(* Fence stripping:                                                        *)
(*   buffer.replace(/```json/i, "").replace(/```/g, "").trim()             *)
(***************************************************************************)
\* the leftmost match of pattern p in t at or after index i (0: none)
FirstMatch(t, i, p, ci) ==
    LET hits == {j \in i..Len(t) : MatchAt(t, j, p, ci)}
    IN  IF hits = {} THEN 0 ELSE CHOOSE j \in hits : \A k \in hits : j <= k

\* .replace(/```json/i, ""): the first (leftmost) match only
ReplaceFirstJsonFence(t) ==
    LET i == FirstMatch(t, 1, JsonFence, TRUE)
    IN  IF i = 0 THEN t
        ELSE SubSeq(t, 1, i - 1) \o SubSeq(t, i + Len(JsonFence), Len(t))

\* .replace(/```/g, ""): every match of a left-to-right, non-overlapping scan
\* (from index i: the text up to the next match, then on after that match)
RECURSIVE RemoveFencesFrom(_, _)
RemoveFencesFrom(t, i) ==
    LET j == FirstMatch(t, i, Fence, FALSE)
    IN  IF j = 0 THEN SubSeq(t, i, Len(t))
        ELSE SubSeq(t, i, j - 1) \o RemoveFencesFrom(t, j + Len(Fence))

\* a fence pattern without the g flag: only the first fence goes
RemoveAllFences_FirstOnly(t) ==
    LET m == FirstMatch(t, 1, Fence, FALSE)
    IN  IF m = 0 THEN t ELSE SubSeq(t, 1, m - 1) \o SubSeq(t, m + 3, Len(t))

RemoveAllFences(t) == RemoveFencesFrom(t, 1)

\* .trim()
RECURSIVE TrimStart(_, _)
TrimStart(t, i) ==
    IF i <= Len(t) /\ t[i] \in TrimWS THEN TrimStart(t, i + 1) ELSE i

RECURSIVE TrimEnd(_, _)
TrimEnd(t, j) ==
    IF j >= 1 /\ t[j] \in TrimWS THEN TrimEnd(t, j - 1) ELSE j

\* cleaning without the .trim() call
Trim_Missing(t) == t

Trim(t) == SubSeq(t, TrimStart(t, 1), TrimEnd(t, Len(t)))

Clean(t) == Trim(RemoveAllFences(ReplaceFirstJsonFence(t)))

(***************************************************************************)
(* JSON values.  undefined is what a property read of a missing key gives. *)
(***************************************************************************)
Undefined == [t |-> "undefined"]
JNull == [t |-> "null"]
JBool(b) == [t |-> "boolean", b |-> b]
JNum(lit) == [t |-> "number", lit |-> lit]
JStr(s) == [t |-> "string", s |-> s]
JArr(items) == [t |-> "array", items |-> items]
\* members: a sequence of [k |-> key text, v |-> value], in source order
JObj(members) == [t |-> "object", members |-> members]

(***************************************************************************)
(* JSON.parse, by recursive descent over the text (ECMA-404 grammar; the   *)
(* \u escape is left out, the others are read).  A parse step returns     *)
(* [ok, v, n]: success, the value, the index after it.                     *)
(***************************************************************************)
Fail == [ok |-> FALSE, v |-> Undefined, n |-> 0]
Ok(v, n) == [ok |-> TRUE, v |-> v, n |-> n]

ControlChars == {"\n", "\t", "\r"}

\* the character a two-character escape stands for
Unescape(c) ==
    CASE c = "n" -> "\n"
      [] c = "t" -> "\t"
      [] c = "r" -> "\r"
      [] OTHER -> c
SimpleEscapes == {Quote, Backslash, "/", "n", "t", "r"}

\* first index >= i that holds no white space
RECURSIVE SkipWS(_, _)
SkipWS(t, i) ==
    IF i <= Len(t) /\ t[i] \in JsonWS THEN SkipWS(t, i + 1) ELSE i

\* first index >= i that holds no digit
RECURSIVE DigitsEnd(_, _)
DigitsEnd(t, i) ==
    IF i <= Len(t) /\ t[i] \in DigitSet THEN DigitsEnd(t, i + 1) ELSE i

\* the backslashes that end at index j, back to index i at most
RECURSIVE BackslashRun(_, _, _)
BackslashRun(t, i, j) ==
    IF j >= i /\ t[j] = Backslash THEN 1 + BackslashRun(t, i, j - 1) ELSE 0

\* inside a string that starts at i, the character at j follows an escaping
\* backslash
Escaped(t, i, j) == BackslashRun(t, i, j - 1) % 2 = 1

\* the characters of t[lo..hi] with the escapes of the string from i resolved
RECURSIVE Unescaped(_, _, _, _)
Unescaped(t, i, lo, hi) ==
    IF lo > hi THEN <<>>
    ELSE IF lo = hi
         THEN IF Escaped(t, i, lo) THEN <<Unescape(t[lo])>>
              ELSE IF t[lo] = Backslash THEN <<>>
              ELSE <<t[lo]>>
    ELSE Unescaped(t, i, lo, (lo + hi) \div 2)
         \o Unescaped(t, i, ((lo + hi) \div 2) + 1, hi)

\* the inside of a string, from index i to the closing quote (the first quote
\* no backslash escapes); no control character, no escape but the simple ones
ScanString(t, i) ==
    LET closes(j) == t[j] = Quote /\ ~Escaped(t, i, j)
        q == CHOOSE j \in i..Len(t) : closes(j) /\ \A k \in i..(j - 1) : ~closes(k)
    IN  IF ~\E j \in i..Len(t) : closes(j) THEN Fail
        ELSE IF \E j \in i..(q - 1) :
                    \/ t[j] \in ControlChars
                    \/ Escaped(t, i, j) /\ t[j] \notin SimpleEscapes
             THEN Fail
        ELSE Ok(JStr(Unescaped(t, i, i, q - 1)), q + 1)

\* number: -? (0 | [1-9][0-9]*) (. [0-9]+)? ([eE] [+-]? [0-9]+)?
ParseNumber(t, i) ==
    LET a == IF t[i] = "-" THEN i + 1 ELSE i
        b == DigitsEnd(t, a)
        intOk == b > a /\ (t[a] = "0" => b = a + 1)
        hasFrac == b <= Len(t) /\ t[b] = "."
        c == IF hasFrac THEN DigitsEnd(t, b + 1) ELSE b
        fracOk == hasFrac => c > b + 1
        hasExp == c <= Len(t) /\ t[c] \in {"e", "E"}
        d == IF hasExp /\ c + 1 <= Len(t) /\ t[c + 1] \in {"+", "-"}
             THEN c + 2 ELSE c + 1
        e == IF hasExp THEN DigitsEnd(t, d) ELSE c
        expOk == hasExp => e > d
    IN  IF intOk /\ fracOk /\ expOk THEN Ok(JNum(SubSeq(t, i, e - 1)), e)
        ELSE Fail

RECURSIVE ParseValue(_, _)
RECURSIVE ParseMembers(_, _, _)
RECURSIVE ParseElements(_, _, _)

ParseValue(t, i0) ==
    LET i == SkipWS(t, i0)
    IN  IF i > Len(t) THEN Fail
        ELSE CASE t[i] = Quote -> ScanString(t, i + 1)
               [] t[i] = "{" ->
                    LET j == SkipWS(t, i + 1)
                    IN  IF j <= Len(t) /\ t[j] = "}" THEN Ok(JObj(<<>>), j + 1)
                        ELSE ParseMembers(t, j, <<>>)
               [] t[i] = "[" ->
                    LET j == SkipWS(t, i + 1)
                    IN  IF j <= Len(t) /\ t[j] = "]" THEN Ok(JArr(<<>>), j + 1)
                        ELSE ParseElements(t, j, <<>>)
               [] t[i] \in DigitSet \cup {"-"} -> ParseNumber(t, i)
               [] MatchAt(t, i, <<"n", "u", "l", "l">>, FALSE) -> Ok(JNull, i + 4)
               [] MatchAt(t, i, <<"t", "r", "u", "e">>, FALSE) -> Ok(JBool(TRUE), i + 4)
               [] MatchAt(t, i, <<"f", "a", "l", "s", "e">>, FALSE) ->
                    Ok(JBool(FALSE), i + 5)
               [] OTHER -> Fail

\* i is where a member's key must start
ParseMembers(t, i, acc) ==
    IF i > Len(t) \/ t[i] # Quote THEN Fail
    ELSE LET key == ScanString(t, i + 1)
         IN  IF ~key.ok THEN Fail
             ELSE LET c == SkipWS(t, key.n)
                  IN  IF c > Len(t) \/ t[c] # ":" THEN Fail
                      ELSE LET val == ParseValue(t, c + 1)
                           IN  IF ~val.ok THEN Fail
                               ELSE LET e == SkipWS(t, val.n)
                                        acc2 == Append(acc, [k |-> key.v.s, v |-> val.v])
                                    IN  IF e > Len(t) THEN Fail
                                        ELSE IF t[e] = "}" THEN Ok(JObj(acc2), e + 1)
                                        ELSE IF t[e] = ","
                                             THEN ParseMembers(t, SkipWS(t, e + 1), acc2)
                                        ELSE Fail

\* i is where an element must start
ParseElements(t, i, acc) ==
    LET val == ParseValue(t, i)
    IN  IF ~val.ok THEN Fail
        ELSE LET e == SkipWS(t, val.n)
                 acc2 == Append(acc, val.v)
             IN  IF e > Len(t) THEN Fail
                 ELSE IF t[e] = "]" THEN Ok(JArr(acc2), e + 1)
                 ELSE IF t[e] = "," THEN ParseElements(t, e + 1, acc2)
                 ELSE Fail

\* JSON.parse(text): [ok |-> FALSE] stands for the SyntaxError it throws
JSONParse(t) ==
    LET r == ParseValue(t, 1)
    IN  IF r.ok /\ SkipWS(t, r.n) > Len(t) THEN r ELSE Fail

(***************************************************************************)
(* The JavaScript the handlers apply to the parsed value.                  *)
(***************************************************************************)
Max(S) == CHOOSE x \in S : \A y \in S : x >= y

\* null and undefined: a property read of them throws a TypeError
Nullish(v) == v.t \in {"null", "undefined"}

\* v[key] of a non-nullish value: for an object the last member of that key,
\* for anything else (and for a missing key) undefined
Get(v, key) ==
    IF v.t = "object"
    THEN LET hits == {i \in 1..Len(v.members) : v.members[i].k = key}
         IN  IF hits = {} THEN Undefined ELSE v.members[Max(hits)].v
    ELSE Undefined

\* ToBoolean
Truthy(v) ==
    CASE v.t \in {"null", "undefined"} -> FALSE
      [] v.t = "boolean" -> v.b
      [] v.t = "number" ->
            \E i \in 1..Len(v.lit) :
               /\ v.lit[i] \in DigitSet \ {"0"}
               /\ \A j \in 1..i : v.lit[j] \notin {"e", "E"}
      [] v.t = "string" -> v.s # <<>>
      [] OTHER -> TRUE

K_tasks == <<"t", "a", "s", "k", "s">>
K_id == <<"i", "d">>
K_title == <<"t", "i", "t", "l", "e">>
K_dueDate == <<"d", "u", "e", "D", "a", "t", "e">>
K_priority == <<"p", "r", "i", "o", "r", "i", "t", "y">>
K_notes == <<"n", "o", "t", "e", "s">>
K_emoji == <<"e", "m", "o", "j", "i">>

TaskFields == {"id", "title", "dueDate", "priority", "notes", "emoji"}

\* decimal digits of a natural number (template literal `task-${idx}`)
RECURSIVE Decimal(_)
Decimal(n) == IF n < 10 THEN <<Digits[n + 1]>>
              ELSE Decimal(n \div 10) \o <<Digits[(n % 10) + 1]>>

\* the string due.toISOString().split('T')[0] of the day `off` days after today
DateString(off) == [t |-> "string", daysFromToday |-> off]

\* Math.floor((idx / 6) * horizonDays), guarded by horizonDays > 0
dayOffset(idx, horizonDays) ==
    IF horizonDays > 0 THEN (idx * horizonDays) \div 6 ELSE 0

computeDueDate(idx, horizonDays) == DateString(dayOffset(idx, horizonDays))

\* horizon === "today" ? 0 : 7
horizonDaysOf(horizon) == IF horizon = "today" THEN 0 ELSE 7

\* the values randomPriority() can return
randomPriority ==
    {JStr(<<"l", "o", "w">>), JStr(<<"m", "e", "d", "i", "u", "m">>),
     JStr(<<"h", "i", "g", "h">>)}

\* the emojis array of randomEmoji(), each symbol named
Emojis == <<"memo", "check", "diamond", "zap", "pin", "fire", "bulb", "target",
            "rocket", "star">>
randomEmoji == {JStr(<<Emojis[i]>>) : i \in 1..Len(Emojis)}

\* a || b
OrElse(a, b) == IF Truthy(a) THEN a ELSE b

\* JSON.stringify of a task object: a property whose value is undefined is
\* left out
StringifyTask(task) ==
    [f \in {g \in TaskFields : task[g].t # "undefined"} |-> task[f]]

(***************************************************************************)
(* POST /plan: data.tasks || [] and the tasks.map callback.                *)
(***************************************************************************)
\* task.priority?.toLowerCase()
PlanPriorityThrows(task) ==
    LET p == Get(task, K_priority)
    IN  ~Nullish(p) /\ p.t # "string"

PlanLoweredPriority(task) ==
    LET p == Get(task, K_priority)
    IN  IF Nullish(p) THEN Undefined
        ELSE JStr([i \in 1..Len(p.s) |-> ToLower(p.s[i])])

\* the callback throws a TypeError
PlanTaskThrows(task) == Nullish(task) \/ PlanPriorityThrows(task)

\* every object the callback can return for one task
PlanTaskChoices(task, idx, horizonDays) ==
    LET lowered == PlanLoweredPriority(task)
        prs == IF Truthy(lowered) THEN {lowered} ELSE randomPriority
        ems == IF Truthy(Get(task, K_emoji)) THEN {Get(task, K_emoji)}
               ELSE randomEmoji
    IN  {[id |-> OrElse(Get(task, K_id), JStr(<<"t", "a", "s", "k", "-">> \o Decimal(idx))),
          title |-> Get(task, K_title),
          dueDate |-> OrElse(Get(task, K_dueDate), computeDueDate(idx, horizonDays)),
          priority |-> pr,
          notes |-> OrElse(Get(task, K_notes), JStr(<<>>)),
          emoji |-> em] : pr \in prs, em \in ems}

\* data.tasks || []
PlanTasksOf(data) == OrElse(Get(data, K_tasks), JArr(<<>>))

\* after JSON.parse the inner try block of POST /plan throws a TypeError (the
\* read of data.tasks, tasks.map or its callback)
PlanMapThrows(data) ==
    \/ Nullish(data)
    \/ PlanTasksOf(data).t # "array"
    \/ \E i \in 1..Len(PlanTasksOf(data).items) :
          PlanTaskThrows(PlanTasksOf(data).items[i])

\* every array tasks.map can return; items[idx] has the 0-based index idx - 1
RECURSIVE PlanMapChoices(_, _, _)
PlanMapChoices(items, idx, horizonDays) ==
    IF idx > Len(items) THEN {<<>>}
    ELSE {<<h>> \o r : h \in PlanTaskChoices(items[idx], idx - 1, horizonDays),
                        r \in PlanMapChoices(items, idx + 1, horizonDays)}

PlanTaskLists(data, horizonDays) ==
    PlanMapChoices(PlanTasksOf(data).items, 1, horizonDays)

(***************************************************************************)
(* POST /plan/stream and generatePlanBackground: data.tasks ?? [] and the  *)
(* map callback that defaults everything but the title.                    *)
(***************************************************************************)
\* data.tasks ?? []
LegacyTasksOf(data) ==
    IF Nullish(Get(data, K_tasks)) THEN JArr(<<>>) ELSE Get(data, K_tasks)

LegacyTaskChoices(task, idx, horizonDays) ==
    {[id |-> JStr(<<"t", "a", "s", "k", "-">> \o Decimal(idx)),
      title |-> Get(task, K_title),
      dueDate |-> computeDueDate(idx, horizonDays),
      priority |-> pr,
      notes |-> JStr(<<>>),
      emoji |-> em] : pr \in randomPriority, em \in randomEmoji}

\* the read of data.tasks, .map or its callback throws a TypeError
LegacyMapThrows(data) ==
    \/ Nullish(data)
    \/ LegacyTasksOf(data).t # "array"
    \/ \E i \in 1..Len(LegacyTasksOf(data).items) :
          Nullish(LegacyTasksOf(data).items[i])

RECURSIVE LegacyMapChoices(_, _, _)
LegacyMapChoices(items, idx, horizonDays) ==
    IF idx > Len(items) THEN {<<>>}
    ELSE {<<h>> \o r : h \in LegacyTaskChoices(items[idx], idx - 1, horizonDays),
                        r \in LegacyMapChoices(items, idx + 1, horizonDays)}

LegacyTaskLists(data, horizonDays) ==
    LegacyMapChoices(LegacyTasksOf(data).items, 1, horizonDays)

(***************************************************************************)
(* JSON.stringify of a string, and the reading of it back by the client.   *)
(***************************************************************************)
EscapeChar(c) ==
    CASE c = Quote -> <<Backslash, Quote>>
      [] c = Backslash -> <<Backslash, Backslash>>
      [] c = "\n" -> <<Backslash, "n">>
      [] c = "\t" -> <<Backslash, "t">>
      [] c = "\r" -> <<Backslash, "r">>
      [] OTHER -> <<c>>

\* the characters of s[lo..hi], each escaped
RECURSIVE EscapeRange(_, _, _)
EscapeRange(s, lo, hi) ==
    IF lo > hi THEN <<>>
    ELSE IF lo = hi THEN EscapeChar(s[lo])
    ELSE EscapeRange(s, lo, (lo + hi) \div 2)
         \o EscapeRange(s, ((lo + hi) \div 2) + 1, hi)

JSONStringifyString(s) == <<Quote>> \o EscapeRange(s, 1, Len(s)) \o <<Quote>>

\* JSON.parse of a string literal on the client side
ClientString(w) ==
    LET r == IF Len(w) > 0 /\ w[1] = Quote THEN ScanString(w, 2) ELSE Fail
    IN  IF r.ok /\ r.n = Len(w) + 1 THEN r.v.s ELSE <<"<undecodable>">>

(***************************************************************************)
(* The SSE frames.  A frame is the object handed to JSON.stringify: the    *)
(* string a delta carries is kept in its stringified form, a task list     *)
(* with the properties JSON.stringify keeps.                               *)
(***************************************************************************)
\* POST /plan: { type: "delta", content: text }
DeltaEvent(text) == [type |-> "delta", content |-> JSONStringifyString(text)]
\* POST /plan: { type: "done", tasks }
DoneEvent(tasks) ==
    [type |-> "done", tasks |-> [i \in 1..Len(tasks) |-> StringifyTask(tasks[i])]]
\* POST /plan: { type: "error", error: err.message }
ErrorEvent(msg) == [type |-> "error", error |-> msg]

\* POST /plan/stream: { chunk: text }
LegacyChunkEvent(text) == [chunk |-> JSONStringifyString(text)]
\* POST /plan/stream: { done: true, tasks }
LegacyDoneEvent(tasks) ==
    [done |-> TRUE, tasks |-> [i \in 1..Len(tasks) |-> StringifyTask(tasks[i])]]
\* POST /plan/stream: { error: err.message }
LegacyErrorEvent(msg) == [error |-> msg]

\* what the client takes a frame for
IsDelta(e) == IF "type" \in DOMAIN e THEN e.type = "delta" ELSE "chunk" \in DOMAIN e
IsDone(e) == IF "type" \in DOMAIN e THEN e.type = "done" ELSE "done" \in DOMAIN e
IsError(e) ==
    IF "type" \in DOMAIN e THEN e.type = "error"
    ELSE "error" \in DOMAIN e /\ "done" \notin DOMAIN e /\ "chunk" \notin DOMAIN e
IsTerminal(e) == IsDone(e) \/ IsError(e)
\* the text a delta frame carries, as the client reads it
DeltaText(e) == ClientString(IF "type" \in DOMAIN e THEN e.content ELSE e.chunk)

(***************************************************************************)
(* The texts the upstream model returns in the model: the fragments of a   *)
(* stream (chunk.text()), and the whole texts of generateContent.          *)
(***************************************************************************)
FragA ==
    <<Backtick, Backtick, Backtick, "j", "s", "o", "n", "\n", "{", Quote,
    "t", "a">>

FragB ==
    <<"s", "k", "s", Quote, ":", "[", "{", Quote, "t", "i", "t", "l", "e",
    Quote, ":", Quote, "a", Quote, "}", ",", "{", Quote, "t", "i">>

FragC ==
    <<"t", "l", "e", Quote, ":", Quote, "b", Quote, "}", "]", "}", "\n",
    Backtick, Backtick, Backtick>>

\* one task without a title or a dueDate, its priority in upper case
FragNoTitle ==
    <<"{", Quote, "t", "a", "s", "k", "s", Quote, ":", "[", "{", Quote, "i",
    "d", Quote, ":", Quote, "x", Quote, ",", Quote, "p", "r", "i", "o", "r",
    "i", "t", "y", Quote, ":", Quote, "H", "I", "G", "H", Quote, ",", Quote,
    "e", "m", "o", "j", "i", Quote, ":", Quote, "e", Quote, ",", Quote, "n",
    "o", "t", "e", "s", Quote, ":", "n", "u", "l", "l", "}", "]", "}">>

FragBare == <<"{", "}">>

FragProse == <<"S", "o", "r", "r", "y">>

FragNull == <<"n", "u", "l", "l">>

FragEmpty == <<>>

WeekTask ==
    <<"{", Quote, "t", "i", "t", "l", "e", Quote, ":", Quote, "a", Quote,
    ",", Quote, "p", "r", "i", "o", "r", "i", "t", "y", Quote, ":", Quote,
    "l", "o", "w", Quote, ",", Quote, "e", "m", "o", "j", "i", Quote, ":",
    Quote, "e", Quote, "}">>

RECURSIVE CommaList(_, _)
CommaList(item, n) ==
    IF n = 0 THEN <<>>
    ELSE IF n = 1 THEN item
    ELSE item \o <<",">> \o CommaList(item, n - 1)

\* tasks of the long plan ("Keep 4-10 tasks max")
WeekPlanTasks == 8

\* a plan of WeekPlanTasks tasks, none with a dueDate
FragWeekPlan ==
    <<"{", Quote, "t", "a", "s", "k", "s", Quote, ":", "[">>
    \o CommaList(WeekTask, WeekPlanTasks) \o <<"]", "}">>

\* what chunk.text() can return, per endpoint
Fragments(ep) ==
    {FragA, FragB, FragC, FragEmpty, FragNoTitle, FragBare, FragProse, FragNull}
    \cup (IF ep = "/plan" THEN {FragWeekPlan} ELSE {})

(***************************************************************************)
(* State.                                                                  *)
(***************************************************************************)
VARIABLES
    \* one streaming request (POST /plan or POST /plan/stream); the handlers keep
    \* everything in locals, so requests share nothing and one stands for each
    pc,          \* where its handler is: idle, rejected, crashed, opening, streaming,
                 \* closed
    endpoint,    \* its route
    body,        \* req.body: [goal, horizon]
    status,      \* HTTP status sent (0: none yet)
    headers,     \* the SSE headers are set
    events,      \* the frames written with res.write, in order
    ended,       \* res.end() was called
    buffer,      \* the handler's accumulator
    cleaned,     \* the handler's cleaned text (empty until it is computed)
    responses,   \* the bodies sent with res.json, in order
    upstream,    \* the model stream: none, opening, open, failed, raised, completed
    taken,       \* the fragments the stream has yielded, in order
    calls,       \* calls of generateContentStream made for this request
    \* the legacy polling path
    plansInProgress,  \* the in-memory store: planId -> entry
    background,       \* the running generatePlanBackground calls: planId -> horizon
    issued,           \* the planIds POST /plan/start has returned
    startResponse,    \* the last response of POST /plan/start
    generateCalls     \* planId -> calls of model.generateContent made for it

streamVars ==
    <<pc, endpoint, body, status, headers, events, ended, buffer, upstream, taken, calls,
      cleaned, responses>>
pollVars == <<plansInProgress, background, issued, startResponse, generateCalls>>
vars ==
    <<pc, endpoint, body, status, headers, events, ended, buffer, upstream, taken, calls,
      cleaned, responses, plansInProgress, background, issued, startResponse,
      generateCalls>>

\* a field the request body does not have
Missing == "<missing>"
\* a goal that is an object whose toString is not callable, as in the body
\* {"goal": {"toString": 1}, ...}: it is truthy, and a template literal that
\* holds it throws a TypeError
Unprintable == "<unprintable>"
Goals == {Missing, "", "Launch a blog", Unprintable}
Horizons == {Missing, "", "today", "week"}

\* !x of a body field
Falsy(x) == x \in {Missing, ""}

NoResponse == [code |-> 0]
\* res.status(400).json({ error: "goal & horizon required" })
MissingFields == [code |-> 400, error |-> "goal & horizon required"]

EmptyMap == [x \in {} |-> x]

Init ==
    /\ pc = "idle"
    /\ endpoint = "none"
    /\ body = [goal |-> Missing, horizon |-> Missing]
    /\ status = 0
    /\ headers = FALSE
    /\ events = <<>>
    /\ ended = FALSE
    /\ buffer = <<>>
    /\ upstream = "none"
    /\ taken = <<>>
    /\ calls = 0
    /\ cleaned = <<>>
    /\ responses = <<>>
    /\ plansInProgress = EmptyMap
    /\ background = EmptyMap
    /\ issued = {}
    /\ startResponse = NoResponse
    /\ generateCalls = EmptyMap

(***************************************************************************)
(* POST /plan and POST /plan/stream.                                       *)
(***************************************************************************)
\* a handler that sets the SSE headers before it validates
Intake_HeadersFirst(ep, goal, horizon) ==
    /\ pc = "idle"
    /\ endpoint' = ep
    /\ body' = [goal |-> goal, horizon |-> horizon]
    /\ events' = <<>>
    /\ buffer' = <<>>
    /\ taken' = <<>>
    /\ cleaned' = <<>>
    /\ headers' = TRUE
    /\ IF Falsy(goal) \/ Falsy(horizon)
       THEN /\ status' = 400
            /\ responses' = <<MissingFields>>
            /\ ended' = TRUE
            /\ calls' = 0
            /\ upstream' = "none"
            /\ pc' = "rejected"
       ELSE IF goal = Unprintable
       THEN /\ status' = 0
            /\ responses' = <<>>
            /\ ended' = FALSE
            /\ calls' = 0
            /\ upstream' = "none"
            /\ pc' = "crashed"
       ELSE /\ status' = 0
            /\ responses' = <<>>
            /\ ended' = FALSE
            /\ calls' = 1
            /\ upstream' = "opening"
            /\ pc' = "opening"
    /\ UNCHANGED pollVars

\* the handler up to its first await: validation, SSE headers, the call of
\* model.generateContentStream(prompt).  The console.log that prints the goal
\* in a template literal stands outside the try block: when it throws the
\* handler is over, with no response and no model call (POST /plan/stream
\* has set its headers by then, POST /plan has not)
Intake(ep, goal, horizon) ==
    /\ pc = "idle"
    /\ endpoint' = ep
    /\ body' = [goal |-> goal, horizon |-> horizon]
    /\ events' = <<>>
    /\ buffer' = <<>>
    /\ taken' = <<>>
    /\ cleaned' = <<>>
    /\ IF Falsy(goal) \/ Falsy(horizon)
       THEN /\ status' = 400
            /\ responses' = <<MissingFields>>
            /\ ended' = TRUE
            /\ headers' = FALSE
            /\ calls' = 0
            /\ upstream' = "none"
            /\ pc' = "rejected"
       ELSE IF goal = Unprintable
       THEN /\ status' = 0
            /\ responses' = <<>>
            /\ ended' = FALSE
            /\ headers' = (ep = "/plan/stream")
            /\ calls' = 0
            /\ upstream' = "none"
            /\ pc' = "crashed"
       ELSE /\ status' = 0
            /\ responses' = <<>>
            /\ ended' = FALSE
            /\ headers' = TRUE
            /\ calls' = 1
            /\ upstream' = "opening"
            /\ pc' = "opening"
    /\ UNCHANGED pollVars

PlanRequest == \E goal \in Goals, horizon \in Horizons : Intake("/plan", goal, horizon)

StreamRequest ==
    \E goal \in Goals, horizon \in Horizons : Intake("/plan/stream", goal, horizon)

\* await model.generateContentStream(prompt) resolves
StreamOpens ==
    /\ pc = "opening"
    /\ pc' = "streaming"
    /\ upstream' = "open"
    /\ UNCHANGED <<endpoint, body, status, headers, events, ended, buffer, taken,
                   calls, cleaned, responses>>
    /\ UNCHANGED pollVars

\* a catch block that is entered twice (an inner handler that reports and
\* rethrows): two error frames
Catch_ReportsTwice(msg) ==
    /\ events' = events \o <<IF endpoint = "/plan" THEN ErrorEvent(msg)
                              ELSE LegacyErrorEvent(msg),
                              IF endpoint = "/plan" THEN ErrorEvent(msg)
                              ELSE LegacyErrorEvent(msg)>>
    /\ status' = 200
    /\ ended' = TRUE
    /\ pc' = "closed"

\* a catch block that answers with the error alone, dropping what was streamed
Catch_Retracts(msg) ==
    /\ events' = <<IF endpoint = "/plan" THEN ErrorEvent(msg)
                   ELSE LegacyErrorEvent(msg)>>
    /\ status' = 200
    /\ ended' = TRUE
    /\ pc' = "closed"

\* the catch block: res.write(error frame); res.end()
Catch(msg) ==
    /\ events' = Append(events, IF endpoint = "/plan" THEN ErrorEvent(msg)
                                ELSE LegacyErrorEvent(msg))
    /\ status' = 200
    /\ ended' = TRUE
    /\ pc' = "closed"

\* a catch block that calls the model once more before it gives up
OpenFails_Retries ==
    /\ pc = "opening"
    /\ IF calls < 2
       THEN /\ calls' = calls + 1
            /\ upstream' = "opening"
            /\ UNCHANGED <<pc, status, events, ended>>
       ELSE /\ upstream' = "failed"
            /\ Catch("upstream error")
            /\ calls' = calls
    /\ UNCHANGED <<endpoint, body, headers, buffer, taken, cleaned, responses>>
    /\ UNCHANGED pollVars

\* await model.generateContentStream(prompt) rejects
OpenFails ==
    /\ pc = "opening"
    /\ upstream' = "failed"
    /\ Catch("upstream error")
    /\ UNCHANGED <<endpoint, body, headers, buffer, taken, calls, cleaned, responses>>
    /\ UNCHANGED pollVars

\* a loop body that assigns where it should append (= for +=)
LoopBody_Overwrites(text) ==
    IF text = <<>>
    THEN UNCHANGED <<buffer, events, status>>
    ELSE /\ buffer' = text
         /\ events' = Append(events, IF endpoint = "/plan" THEN DeltaEvent(text)
                                     ELSE LegacyChunkEvent(text))
         /\ status' = 200

\* a loop body without `if (!text) continue`
LoopBody_NoSkip(text) ==
    /\ buffer' = buffer \o text
    /\ events' = Append(events, IF endpoint = "/plan" THEN DeltaEvent(text)
                                ELSE LegacyChunkEvent(text))
    /\ status' = 200

\* one turn of the for-await loop: the stream yields a chunk
LoopBody(text) ==
    IF text = <<>>
    THEN UNCHANGED <<buffer, events, status>>
    ELSE /\ buffer' = buffer \o text
         /\ events' = Append(events, IF endpoint = "/plan" THEN DeltaEvent(text)
                                     ELSE LegacyChunkEvent(text))
         /\ status' = 200

Chunk ==
    /\ pc = "streaming"
    /\ Len(taken) < MaxFragments
    /\ \E text \in Fragments(endpoint) :
          /\ taken' = Append(taken, text)
          /\ LoopBody(text)
    /\ UNCHANGED <<pc, endpoint, body, headers, ended, upstream, calls, cleaned,
                   responses>>
    /\ UNCHANGED pollVars

\* the stream (or chunk.text()) throws inside the loop
StreamRaises ==
    /\ pc = "streaming"
    /\ upstream' = "raised"
    /\ Catch("upstream error")
    /\ UNCHANGED <<endpoint, body, headers, buffer, taken, calls, cleaned, responses>>
    /\ UNCHANGED pollVars

\* an inner catch that swallows the parse error and goes on with no tasks
PlanTerminalEvents_SwallowsParseError(buf, horizon) ==
    LET stripped == Clean(buf)
        r == JSONParse(stripped)
    IN  IF ~r.ok \/ PlanMapThrows(r.v)
        THEN {DoneEvent(<<>>)}
        ELSE {DoneEvent(tasks) : tasks \in PlanTaskLists(r.v, horizonDaysOf(horizon))}

\* POST /plan after the loop: what the rest of the try block and the catch
\* block can write as the last frame
PlanTerminalEvents(buf, horizon) ==
    LET stripped == Clean(buf)
        r == JSONParse(stripped)
    IN  IF ~r.ok \/ PlanMapThrows(r.v)
        THEN {ErrorEvent("AI returned invalid JSON")}
        ELSE {DoneEvent(tasks) : tasks \in PlanTaskLists(r.v, horizonDaysOf(horizon))}

\* POST /plan/stream after the loop
LegacyTerminalEvents(buf, horizon) ==
    LET stripped == Clean(buf)
        r == JSONParse(stripped)
    IN  IF ~r.ok THEN {LegacyErrorEvent("Invalid AI JSON output")}
        ELSE IF LegacyMapThrows(r.v) THEN {LegacyErrorEvent("TypeError")}
        ELSE {LegacyDoneEvent(tasks) :
                 tasks \in LegacyTaskLists(r.v, horizonDaysOf(horizon))}

\* the done frame written without res.end()
Finish_NoEnd(e) ==
    /\ events' = Append(events, e)
    /\ status' = 200
    /\ ended' = ended
    /\ pc' = "closed"

\* res.write(terminal frame); res.end()
Finish(e) ==
    /\ events' = Append(events, e)
    /\ status' = 200
    /\ ended' = TRUE
    /\ pc' = "closed"

\* the stream ends: POST /plan cleans, parses and answers
PlanCompletes ==
    /\ pc = "streaming"
    /\ endpoint = "/plan"
    /\ upstream' = "completed"
    /\ cleaned' = Clean(buffer)
    /\ \E e \in PlanTerminalEvents(buffer, body.horizon) : Finish(e)
    /\ UNCHANGED <<endpoint, body, headers, buffer, taken, calls, responses>>
    /\ UNCHANGED pollVars

\* the stream ends: POST /plan/stream cleans, parses and answers
LegacyCompletes ==
    /\ pc = "streaming"
    /\ endpoint = "/plan/stream"
    /\ upstream' = "completed"
    /\ cleaned' = Clean(buffer)
    /\ \E e \in LegacyTerminalEvents(buffer, body.horizon) : Finish(e)
    /\ UNCHANGED <<endpoint, body, headers, buffer, taken, calls, responses>>
    /\ UNCHANGED pollVars

\* what the model stream does next
UpstreamStep ==
    \/ StreamOpens
    \/ OpenFails
    \/ StreamRaises
    \/ Chunk
    \/ PlanCompletes
    \/ LegacyCompletes

Next ==
    \/ PlanRequest
    \/ StreamRequest
    \/ UpstreamStep

\* the life of a streaming request
Spec == Init /\ [][Next]_vars

(***************************************************************************)
(* The legacy polling path: POST /plan/start, generatePlanBackground and   *)
(* GET /plan/status/:planId over the plansInProgress object.               *)
(***************************************************************************)
\* the k-th value uuidv4() returns; the model takes uuidv4() to return a value
\* it has not returned before
UuidNames == <<"uuid-1", "uuid-2", "uuid-3", "uuid-4", "uuid-5", "uuid-6">>
Uuid(k) == UuidNames[k]

\* names every object inherits from Object.prototype (two of them)
ObjectPrototypeKeys == {"constructor", "__proto__"}

\* the :planId parameters a client sends
StatusParams ==
    {Uuid(k) : k \in 1..(MaxPlans + 1)} \cup ObjectPrototypeKeys \cup {"no-such-plan"}

\* plansInProgress[planId]: an own property, else one inherited from
\* Object.prototype, else undefined
Lookup(store, planId) ==
    IF planId \in DOMAIN store THEN store[planId]
    ELSE IF planId \in ObjectPrototypeKeys THEN [inherited |-> planId]
    ELSE Undefined

\* plansInProgress[planId] = entry
Put(store, planId, entry) ==
    [k \in DOMAIN store \cup {planId} |-> IF k = planId THEN entry ELSE store[k]]

PendingEntry == [status |-> "pending", plan |-> JNull]
CompletedEntry(tasks) == [status |-> "completed", plan |-> [tasks |-> tasks]]
FailedEntry(msg) == [status |-> "error", error |-> msg]

\* the whole texts result.response.text() can be
FencedOneTask ==
    <<Backtick, Backtick, Backtick, "j", "s", "o", "n", "\n", "{", Quote,
    "t", "a", "s", "k", "s", Quote, ":", "[", "{", Quote, "t", "i", "t",
    "l", "e", Quote, ":", Quote, "a", Quote, "}", "]", "}", "\n", Backtick,
    Backtick, Backtick>>

BackgroundTexts == {FencedOneTask, FragBare, FragProse, FragNull}

\* POST /plan/start, with generatePlanBackground up to its first await.  The
\* prompt of generatePlanBackground is a template literal inside its try
\* block: when it throws, the catch block has written the error entry before
\* generatePlanBackground returns to the handler, and no call is made
StartHandler(goal, horizon) ==
    /\ IF Falsy(goal) \/ Falsy(horizon)
       THEN /\ startResponse' = [code |-> 400]
            /\ UNCHANGED <<plansInProgress, background, issued, generateCalls>>
       ELSE /\ Cardinality(issued) < MaxPlans
            /\ LET planId == Uuid(Cardinality(issued) + 1)
               IN  /\ IF goal = Unprintable
                      THEN /\ plansInProgress' =
                                 Put(plansInProgress, planId, FailedEntry("TypeError"))
                           /\ UNCHANGED <<background, generateCalls>>
                      ELSE /\ plansInProgress' =
                                 Put(plansInProgress, planId, PendingEntry)
                           /\ background' = Put(background, planId, horizon)
                           /\ generateCalls' = Put(generateCalls, planId, 1)
                   /\ issued' = issued \cup {planId}
                   /\ startResponse' =
                         [code |-> 200, planId |-> planId, status |-> "pending"]
    /\ UNCHANGED streamVars

StartRequest == \E goal \in Goals, horizon \in Horizons : StartHandler(goal, horizon)

\* the entries generatePlanBackground can write once generateContent has
\* resolved with this text
BackgroundEntries(text, horizon) ==
    LET stripped == Clean(text)
        r == JSONParse(stripped)
    IN  IF ~r.ok THEN {FailedEntry("SyntaxError")}
        ELSE IF LegacyMapThrows(r.v) THEN {FailedEntry("TypeError")}
        ELSE {CompletedEntry(tasks) :
                 tasks \in LegacyTaskLists(r.v, horizonDaysOf(horizon))}

\* await model.generateContent(prompt) resolves
BackgroundResolves ==
    \E planId \in DOMAIN background :
       /\ background' = [k \in DOMAIN background \ {planId} |-> background[k]]
       /\ UNCHANGED <<issued, startResponse, generateCalls>>
       /\ UNCHANGED streamVars
       /\ \E text \in BackgroundTexts :
             \E entry \in BackgroundEntries(text, background[planId]) :
                plansInProgress' = Put(plansInProgress, planId, entry)

\* a catch block that puts the entry back to pending (to be retried)
BackgroundRejects_BackToPending ==
    \E planId \in DOMAIN plansInProgress :
       /\ plansInProgress' = Put(plansInProgress, planId, PendingEntry)
       /\ background' = [k \in DOMAIN background \ {planId} |-> background[k]]
       /\ UNCHANGED <<issued, startResponse, generateCalls>>
       /\ UNCHANGED streamVars

\* a catch block that writes to the planId issued last (one planId variable
\* shared by all generations)
BackgroundRejects_WritesLatest ==
    \E planId \in DOMAIN background :
       /\ plansInProgress' = Put(plansInProgress, Uuid(Cardinality(issued)),
                                 FailedEntry("upstream error"))
       /\ background' = [k \in DOMAIN background \ {planId} |-> background[k]]
       /\ UNCHANGED <<issued, startResponse, generateCalls>>
       /\ UNCHANGED streamVars

\* await model.generateContent(prompt) rejects
BackgroundRejects ==
    \E planId \in DOMAIN background :
       /\ plansInProgress' = Put(plansInProgress, planId, FailedEntry("upstream error"))
       /\ background' = [k \in DOMAIN background \ {planId} |-> background[k]]
       /\ UNCHANGED <<issued, startResponse, generateCalls>>
       /\ UNCHANGED streamVars

\* what GET /plan/status/:planId answers
StatusReply(planId) ==
    LET planStatus == Lookup(plansInProgress, planId)
    IN  IF planStatus = Undefined THEN [code |-> 404, body |-> "Invalid planId"]
        ELSE [code |-> 200, body |-> planStatus]

\* GET /plan/status/:planId reads the store and answers; it writes nothing
StatusRequest ==
    /\ \E planId \in StatusParams : StatusReply(planId).code \in {200, 404}
    /\ UNCHANGED vars

BackgroundStep == BackgroundRejects \/ BackgroundResolves

PollNext ==
    \/ StartRequest
    \/ BackgroundStep
    \/ StatusRequest

\* the polling path
PollSpec == Init /\ [][PollNext]_vars

\* the polling path when no generateContent call stays unsettled for ever.  A
\* running call can reject at any moment until it has settled, so weak
\* fairness of the rejection says just this: the call rejects unless it
\* resolves first.
FairPollSpec == PollSpec /\ WF_vars(BackgroundRejects)

\* the streaming request when its stream settles: the call opens the stream or
\* fails, and an open stream does not stay open for ever.  An open stream can
\* raise at any moment until it has ended, so weak fairness of the raise says
\* just this: the stream raises unless it completes first.
FairSpec == Spec /\ WF_vars(StreamOpens \/ OpenFails) /\ WF_vars(StreamRaises)

\* the life of a request to POST /plan alone
PlanNext ==
    \/ PlanRequest
    \/ StreamOpens
    \/ OpenFails
    \/ StreamRaises
    \/ Chunk
    \/ PlanCompletes

PlanSpec == Init /\ [][PlanNext]_vars

\* the three POST handlers up to their first await: validation and what
\* follows it synchronously
IntakeNext ==
    \/ PlanRequest
    \/ StreamRequest
    \/ StartRequest

IntakeSpec == Init /\ [][IntakeNext]_vars

(***************************************************************************)
(* POST /plan on a family of plans: every tasks array of up to MaxTasks    *)
(* tasks, each task with or without an id and a priority of its own.       *)
(***************************************************************************)
\* tasks of a plan of the family
MaxTasks == 2

\* the id member of a task: none, the id of the prompt's example, another
IdMembers ==
    {<<>>,
     <<Quote, "i", "d", Quote, ":", Quote, "t", "a", "s", "k", "-", "1",
     Quote, ",">>,
     <<Quote, "i", "d", Quote, ":", Quote, "x", Quote, ",">>}

\* the priority member of a task: none, upper case, a word that is no
\* priority, the empty string, a number
PriorityMembers ==
    {<<>>,
     <<Quote, "p", "r", "i", "o", "r", "i", "t", "y", Quote, ":", Quote,
     "H", "I", "G", "H", Quote, ",">>,
     <<Quote, "p", "r", "i", "o", "r", "i", "t", "y", Quote, ":", Quote,
     "u", "r", "g", "e", "n", "t", Quote, ",">>,
     <<Quote, "p", "r", "i", "o", "r", "i", "t", "y", Quote, ":", Quote,
     Quote, ",">>,
     <<Quote, "p", "r", "i", "o", "r", "i", "t", "y", Quote, ":", "5",
     ",">>}

TaskText(idMember, priorityMember) ==
    <<"{">> \o idMember \o priorityMember \o
    <<Quote, "t", "i", "t", "l", "e", Quote, ":", Quote, "a", Quote, ",",
    Quote, "e", "m", "o", "j", "i", Quote, ":", Quote, "e", Quote, "}">>

TaskTexts == {TaskText(i, p) : i \in IdMembers, p \in PriorityMembers}

\* the texts of a sequence, separated by commas
RECURSIVE Join(_)
Join(texts) ==
    IF texts = <<>> THEN <<>>
    ELSE IF Len(texts) = 1 THEN texts[1]
    ELSE texts[1] \o <<",">> \o Join(Tail(texts))

TasksDoc(taskTexts) ==
    <<"{", Quote, "t", "a", "s", "k", "s", Quote, ":", "[">> \o Join(taskTexts) \o <<"]", "}">>

PlanDocs ==
    {TasksDoc(ts) : ts \in UNION {[1..n -> TaskTexts] : n \in 0..MaxTasks}}

\* POST /plan when the stream has yielded a whole plan as its one fragment
NormalizeInit ==
    /\ pc = "streaming"
    /\ endpoint = "/plan"
    /\ body \in {[goal |-> "Launch a blog", horizon |-> h] : h \in {"today", "week"}}
    /\ status = 200
    /\ headers = TRUE
    /\ buffer \in PlanDocs
    /\ taken = <<buffer>>
    /\ events = <<DeltaEvent(buffer)>>
    /\ ended = FALSE
    /\ upstream = "open"
    /\ calls = 1
    /\ cleaned = <<>>
    /\ responses = <<>>
    /\ plansInProgress = EmptyMap
    /\ background = EmptyMap
    /\ issued = {}
    /\ startResponse = NoResponse
    /\ generateCalls = EmptyMap

\* cleaning, parsing and normalising each plan of the family
NormalizeSpec == NormalizeInit /\ [][PlanCompletes]_vars

(***************************************************************************)
(* POST /plan on a family of texts made of backticks, the word json, white *)
(* space and other characters, in every order.                             *)
(***************************************************************************)
\* the texts of a sequence, one after the other
RECURSIVE Flatten(_)
Flatten(texts) ==
    IF texts = <<>> THEN <<>> ELSE Head(texts) \o Flatten(Tail(texts))

\* pieces of a text of the family
MaxPieces == 4

Pieces ==
    {<<Backtick>>, Fence, <<"j", "s", "o", "n">>, <<"J", "s", "O", "N">>,
     <<" ">>, <<"\n">>, <<"x">>}

PieceTexts == {Flatten(ps) : ps \in UNION {[1..n -> Pieces] : n \in 0..MaxPieces}}

\* POST /plan when the stream has yielded a text of the family
CleanInit ==
    /\ pc = "streaming"
    /\ endpoint = "/plan"
    /\ body = [goal |-> "Launch a blog", horizon |-> "today"]
    /\ status = 200
    /\ headers = TRUE
    /\ buffer \in PieceTexts
    /\ taken = IF buffer = <<>> THEN <<>> ELSE <<buffer>>
    /\ events = IF buffer = <<>> THEN <<>> ELSE <<DeltaEvent(buffer)>>
    /\ ended = FALSE
    /\ upstream = "open"
    /\ calls = 1
    /\ cleaned = <<>>
    /\ responses = <<>>
    /\ plansInProgress = EmptyMap
    /\ background = EmptyMap
    /\ issued = {}
    /\ startResponse = NoResponse
    /\ generateCalls = EmptyMap

\* cleaning each text of the family
CleanSpec == CleanInit /\ [][PlanCompletes]_vars

(***************************************************************************)
(* POST /plan on plans delivered bare and inside a fence, the text cut     *)
(* into fragments at every position.                                       *)
(***************************************************************************)
\* cuts of one delivery
MaxCuts == 1

\* two tasks, in an order; a task that brings its priority and emoji leaves
\* nothing to chance
DocTwoTasks ==
    <<"{", Quote, "t", "a", "s", "k", "s", Quote, ":", "[", "{", Quote,
    "t", "i", "t", "l", "e", Quote, ":", Quote, "b", Quote, ",", Quote,
    "p", "r", "i", "o", "r", "i", "t", "y", Quote, ":", Quote, "l", "o",
    "w", Quote, ",", Quote, "e", "m", "o", "j", "i", Quote, ":", Quote,
    "e", Quote, "}", ",", "{", Quote, "t", "i", "t", "l", "e", Quote, ":",
    Quote, "a", Quote, ",", Quote, "p", "r", "i", "o", "r", "i", "t", "y",
    Quote, ":", Quote, "l", "o", "w", Quote, ",", Quote, "e", "m", "o",
    "j", "i", Quote, ":", Quote, "e", Quote, "}", "]", "}">>

\* a title of two backticks, the word json and a backtick
DocBacktickTitle ==
    <<"{", Quote, "t", "a", "s", "k", "s", Quote, ":", "[", "{", Quote,
    "t", "i", "t", "l", "e", Quote, ":", Quote, Backtick, Backtick, "j",
    "s", "o", "n", Backtick, Quote, ",", Quote, "p", "r", "i", "o", "r",
    "i", "t", "y", Quote, ":", Quote, "l", "o", "w", Quote, ",", Quote,
    "e", "m", "o", "j", "i", Quote, ":", Quote, "e", Quote, "}", "]",
    "}">>

\* an empty plan with white space around it
DocPadded ==
    <<" ", "{", Quote, "t", "a", "s", "k", "s", Quote, ":", "[", "]", "}",
    "\n">>

\* JSON texts without a fence
WrapDocs == {DocTwoTasks, DocBacktickTitle, DocPadded, FragBare, FragNull}

\* "```json\n" + J + "\n```"
JsonFenced(J) == JsonFence \o <<"\n">> \o J \o <<"\n">> \o Fence
\* "```\n" + J + "\n```"
PlainFenced(J) == Fence \o <<"\n">> \o J \o <<"\n">> \o Fence

Wrappings(J) == {J, JsonFenced(J), PlainFenced(J)}

\* the ways a stream can deliver text w in fragments, with up to n cuts; a
\* fragment can be empty
RECURSIVE Deliveries(_, _)
Deliveries(w, n) ==
    IF n = 0 THEN {<<w>>}
    ELSE {<<w>>} \cup
         UNION {{<<SubSeq(w, 1, c)>> \o rest :
                    rest \in Deliveries(SubSeq(w, c + 1, Len(w)), n - 1)} :
                c \in 0..Len(w)}

\* J bare and in a plain fence, in one fragment; J in a json fence, cut
\* anywhere
WrapDeliveries(J) ==
    {<<J>>, <<PlainFenced(J)>>} \cup Deliveries(JsonFenced(J), MaxCuts)

\* the delta frames of the loop for these fragments
DeltasOf(fragments) ==
    LET shown == SelectSeq(fragments, LAMBDA text : text # <<>>)
    IN  [i \in 1..Len(shown) |-> DeltaEvent(shown[i])]

\* POST /plan when the stream has yielded one of the plans, in fragments
WrapInit ==
    /\ pc = "streaming"
    /\ endpoint = "/plan"
    /\ body = [goal |-> "Launch a blog", horizon |-> "today"]
    /\ status = 200
    /\ headers = TRUE
    /\ taken \in UNION {WrapDeliveries(J) : J \in WrapDocs}
    /\ buffer = Flatten(taken)
    /\ events = DeltasOf(taken)
    /\ ended = FALSE
    /\ upstream = "open"
    /\ calls = 1
    /\ cleaned = <<>>
    /\ responses = <<>>
    /\ plansInProgress = EmptyMap
    /\ background = EmptyMap
    /\ issued = {}
    /\ startResponse = NoResponse
    /\ generateCalls = EmptyMap

\* cleaning, parsing and answering each delivery
WrapSpec == WrapInit /\ [][PlanCompletes]_vars

(***************************************************************************)
(* The buffered POST /plan: one call of model.generateContent, one JSON    *)
(* response.  The whole handler is inside one try block.                   *)
(***************************************************************************)
Buffered == "/plan (buffered)"

\* res.status(400).json({ error: 'goal and horizon are required' })
BufferedMissing == [code |-> 400, error |-> "goal and horizon are required"]
\* res.status(502).json({ error: 'Model returned invalid JSON', raw: cleaned })
InvalidJson(raw) == [code |-> 502, error |-> "Model returned invalid JSON", raw |-> raw]
\* res.status(502).json({ error: 'Model did not return a valid tasks array',
\* raw: data })
NoTasksArray(raw) ==
    [code |-> 502, error |-> "Model did not return a valid tasks array", raw |-> raw]
\* res.status(500).json({ error: 'Server error', detail: err.message })
ServerError(detail) == [code |-> 500, error |-> "Server error", detail |-> detail]
\* res.json(data)
PlanResponse(data) == [code |-> 200, data |-> data]

\* JSON texts whose tasks is no array, or that have none
OddTasksDocs ==
    {<<"{", Quote, "t", "a", "s", "k", "s", Quote, ":", "5", "}">>,
     <<"{", Quote, "t", "a", "s", "k", "s", Quote, ":", Quote, "x", Quote,
"}">>,
     <<"{", Quote, "t", "a", "s", "k", "s", Quote, ":", "n", "u", "l", "l",
"}">>,
     <<"{", Quote, "t", "a", "s", "k", "s", Quote, ":", "{", "}", "}">>,
     <<"{", Quote, "t", "a", "s", "k", "s", Quote, ":", "0", "}">>,
     <<"[", "]">>,
     <<"5">>,
     <<Quote, "t", "a", "s", "k", "s", Quote>>}

\* the whole texts result.response.text() can be
BufferedTexts ==
    BackgroundTexts \cup {FragEmpty, JsonFenced(DocTwoTasks)} \cup WrapDocs
    \cup OddTasksDocs \cup {TasksDoc(<<>>)}
    \cup {TasksDoc(<<task>>) : task \in TaskTexts}
    \cup {TasksDoc(<<task, task>>) : task \in TaskTexts}

\* the handler up to its await: validation, the prompt (a template literal
\* that holds the goal), the call of model.generateContent(prompt)
BufferedIntake(goal, horizon) ==
    /\ pc = "idle"
    /\ endpoint' = Buffered
    /\ body' = [goal |-> goal, horizon |-> horizon]
    /\ IF Falsy(goal) \/ Falsy(horizon)
       THEN /\ status' = 400
            /\ responses' = <<BufferedMissing>>
            /\ calls' = 0
            /\ upstream' = "none"
            /\ pc' = "rejected"
       ELSE IF goal = Unprintable
       THEN /\ status' = 500
            /\ responses' = <<ServerError("TypeError")>>
            /\ calls' = 0
            /\ upstream' = "none"
            /\ pc' = "closed"
       ELSE /\ status' = 0
            /\ responses' = <<>>
            /\ calls' = 1
            /\ upstream' = "opening"
            /\ pc' = "opening"
    /\ UNCHANGED <<headers, events, ended, buffer, taken, cleaned>>
    /\ UNCHANGED pollVars

BufferedRequest ==
    \E goal \in Goals, horizon \in Horizons : BufferedIntake(goal, horizon)

\* a catch block of JSON.parse without its return: the handler goes on to the
\* check of data.tasks with data undefined
BufferedResponses_NoReturn(text) ==
    LET stripped == Clean(text)
        data == JSONParse(stripped)
    IN  IF ~data.ok THEN <<InvalidJson(stripped), NoTasksArray(Undefined)>>
        ELSE IF \/ Nullish(data.v)
                \/ ~Truthy(Get(data.v, K_tasks))
                \/ Get(data.v, K_tasks).t # "array"
        THEN <<NoTasksArray(data.v)>>
        ELSE <<PlanResponse(data.v)>>

\* what the handler sends once generateContent has resolved with this text:
\* clean, JSON.parse, !data?.tasks || !Array.isArray(data.tasks)
BufferedResponses(text) ==
    LET stripped == Clean(text)
        data == JSONParse(stripped)
    IN  IF ~data.ok THEN <<InvalidJson(stripped)>>
        ELSE IF \/ Nullish(data.v)
                \/ ~Truthy(Get(data.v, K_tasks))
                \/ Get(data.v, K_tasks).t # "array"
        THEN <<NoTasksArray(data.v)>>
        ELSE <<PlanResponse(data.v)>>

\* await model.generateContent(prompt) resolves
BufferedResolves ==
    /\ pc = "opening"
    /\ endpoint = Buffered
    /\ \E text \in BufferedTexts :
          /\ buffer' = text
          /\ cleaned' = Clean(text)
          /\ responses' = responses \o BufferedResponses(text)
          /\ status' = responses'[Len(responses')].code
    /\ upstream' = "completed"
    /\ pc' = "closed"
    /\ UNCHANGED <<endpoint, body, headers, events, ended, taken, calls>>
    /\ UNCHANGED pollVars

\* await model.generateContent(prompt) rejects
BufferedRejects ==
    /\ pc = "opening"
    /\ endpoint = Buffered
    /\ responses' = Append(responses, ServerError("upstream error"))
    /\ status' = 500
    /\ upstream' = "failed"
    /\ pc' = "closed"
    /\ UNCHANGED <<endpoint, body, headers, events, ended, buffer, taken, calls, cleaned>>
    /\ UNCHANGED pollVars

BufferedNext ==
    \/ BufferedRequest
    \/ BufferedResolves
    \/ BufferedRejects

\* the life of a buffered request
BufferedSpec == Init /\ [][BufferedNext]_vars

(***************************************************************************)
(* All four paths.  The handlers of different requests share nothing but   *)
(* the store of the polling path, so a behaviour follows one streaming or  *)
(* buffered request, or the polling path.                                  *)
(***************************************************************************)
\* no POST /plan/start has been handled
NoStart == issued = {} /\ startResponse = NoResponse
\* no streaming or buffered request has been handled
NoRequest == pc = "idle"

AllPathsNext ==
    \/ NoStart /\ PlanRequest
    \/ NoStart /\ StreamRequest
    \/ NoStart /\ BufferedRequest
    \/ NoStart /\ endpoint # Buffered /\ StreamOpens
    \/ NoStart /\ endpoint # Buffered /\ OpenFails
    \/ NoStart /\ StreamRaises
    \/ NoStart /\ Chunk
    \/ NoStart /\ PlanCompletes
    \/ NoStart /\ LegacyCompletes
    \/ NoStart /\ BufferedResolves
    \/ NoStart /\ BufferedRejects
    \/ NoRequest /\ StartRequest
    \/ NoRequest /\ BackgroundRejects
    \/ NoRequest /\ BackgroundResolves
    \/ NoRequest /\ StatusRequest

AllPathsSpec == Init /\ [][AllPathsNext]_vars

(***************************************************************************)
(* Properties.                                                             *)
(***************************************************************************)
TerminalIndexes == {i \in 1..Len(events) : IsTerminal(events[i])}
DoneIndexes == {i \in 1..Len(events) : IsDone(events[i])}
ErrorIndexes == {i \in 1..Len(events) : IsError(events[i])}
NonEmpty(text) == text # <<>>
\* the texts of the delta frames written so far, as the client reads them
DeltaTexts ==
    LET deltas == SelectSeq(events, IsDelta)
    IN  [i \in 1..Len(deltas) |-> DeltaText(deltas[i])]
\* the stream of the request has ended, one way or the other
Settled == upstream \in {"failed", "raised", "completed"}

C2_DeltasAreNonEmptyFragments == DeltaTexts = SelectSeq(taken, NonEmpty)

\* three fragments taken, one of them empty, two deltas written, the first
\* with characters JSON.stringify escapes
C2_Witness ==
    /\ Len(taken) = 3
    /\ taken[1] = FragA
    /\ \E i \in 1..3 : taken[i] = FragEmpty
    /\ Len(DeltaTexts) = 2

\* C3: when the stream completed and the accumulated text, fences stripped,
\* does not parse as JSON, the request has written exactly one error frame and
\* no done frame, and has called the model once.
C3_UnparseableGivesOneError ==
    (upstream = "completed" /\ ~JSONParse(Clean(buffer)).ok)
       => /\ Cardinality(ErrorIndexes) = 1
          /\ DoneIndexes = {}
          /\ calls = 1

\* a completed stream of two deltas whose text is no JSON
C3_Witness ==
    /\ upstream = "completed"
    /\ ~JSONParse(Clean(buffer)).ok
    /\ Len(events) = 3

\* the statement C4 makes of the state after the stream raised
C4_AfterRaise ==
    upstream = "raised"
       => /\ Len(events) = Len(SelectSeq(taken, NonEmpty)) + 1
          /\ IsError(events[Len(events)])
          /\ \A i \in 1..(Len(events) - 1) : IsDelta(events[i])
          /\ DeltaTexts = SelectSeq(taken, NonEmpty)
          /\ DoneIndexes = {}
          /\ ended

\* no step takes back or changes a frame already written
C4_NoRetraction ==
    /\ Len(events') >= Len(events)
    /\ \A i \in 1..Len(events) : events'[i] = events[i]

\* C4: when the stream raises after k >= 0 deltas were written, the request
\* writes exactly one error frame after them and no done frame, closes the
\* transport, and the k deltas stay as they were written.
C4_RaiseAfterDeltas == []C4_AfterRaise /\ [][C4_NoRetraction]_vars

\* the stream raised after two deltas
C4_Witness ==
    /\ upstream = "raised"
    /\ Len(events) = 3

\* the effects a rejected streaming request must not have
C5_StreamRejected ==
    /\ status' = 400
    /\ calls' = 0
    /\ upstream' = "none"
    /\ ~headers'
    /\ events' = <<>>
    /\ UNCHANGED pollVars

\* the effects a rejected POST /plan/start must not have
C5_StartRejected ==
    /\ startResponse'.code = 400
    /\ UNCHANGED <<plansInProgress, background, issued, generateCalls>>
    /\ UNCHANGED streamVars

\* C5: a request to POST /plan, POST /plan/stream or POST /plan/start whose
\* goal or horizon is missing or empty is answered with 400 and does nothing
\* else: no model call, no SSE header, no frame, no store entry.
C5_MissingFieldsRejected ==
    [][\A goal \in Goals, horizon \in Horizons :
          (Falsy(goal) \/ Falsy(horizon))
             => /\ (Intake("/plan", goal, horizon) => C5_StreamRejected)
                /\ (Intake("/plan/stream", goal, horizon) => C5_StreamRejected)
                /\ (StartHandler(goal, horizon) => C5_StartRejected)]_vars

\* a streaming request and a POST /plan/start were both rejected, after one
\* plan had been started
C5_Witness ==
    /\ pc = "rejected"
    /\ Falsy(body.goal)
    /\ startResponse.code = 400
    /\ Cardinality(issued) = 1

\* C6: on POST /plan every task of every done frame has the six fields id,
\* title, dueDate, priority, notes and emoji, none of them null, whatever
\* fields the tasks of the parsed text had.
C6_AllSixFieldsPresent ==
    endpoint = "/plan"
       => \A i \in DoneIndexes : \A k \in 1..Len(events[i].tasks) :
             \A f \in TaskFields :
                /\ f \in DOMAIN events[i].tasks[k]
                /\ events[i].tasks[k][f].t # "null"

\* the tasks of a done frame whose dueDate is the one computeDueDate gave
Defaulted(tasks) ==
    {k \in 1..Len(tasks) :
        /\ "dueDate" \in DOMAIN tasks[k]
        /\ "daysFromToday" \in DOMAIN tasks[k].dueDate}

\* C7: in a done frame the defaulted due date of a task is today for horizon
\* "today"; for horizon "week" it is between today and today + 7 days and
\* never earlier than the defaulted due date of a task before it (plans of up
\* to ten tasks, indexes 0..9).
C7_DefaultedDueDateInWindow ==
    \A i \in DoneIndexes :
       LET tasks == events[i].tasks
       IN  Len(tasks) <= 10
              => \A k \in Defaulted(tasks) :
                    LET off == tasks[k].dueDate.daysFromToday
                    IN  /\ body.horizon = "today" => off = 0
                        /\ body.horizon = "week"
                              => /\ 0 <= off
                                 /\ off <= 7
                                 /\ \A j \in Defaulted(tasks) :
                                       j <= k => tasks[j].dueDate.daysFromToday <= off

\* the planIds POST /plan/start can issue
PlanIds == {Uuid(k) : k \in 1..MaxPlans}

IsPending(planId) ==
    /\ planId \in DOMAIN plansInProgress
    /\ plansInProgress[planId].status = "pending"

\* completed carrying a plan {tasks}, or error carrying a message
IsFinal(entry) ==
    \/ entry.status = "completed" /\ "tasks" \in DOMAIN entry.plan
    \/ entry.status = "error" /\ "error" \in DOMAIN entry

\* what one step may do to the entry of planId.  A generation that fails
\* before its first await has gone from pending to error inside the step of
\* POST /plan/start: the entry appears as error, with no generation running
C8_EntryStep(planId) ==
    /\ (planId \notin DOMAIN plansInProgress /\ planId \in DOMAIN plansInProgress')
          => /\ \/ plansInProgress'[planId] = PendingEntry
                \/ /\ plansInProgress'[planId] = FailedEntry("TypeError")
                   /\ planId \notin DOMAIN background'
             /\ startResponse' = [code |-> 200, planId |-> planId, status |-> "pending"]
             /\ planId \notin issued
    /\ planId \in DOMAIN plansInProgress
          => /\ planId \in DOMAIN plansInProgress'
             /\ \/ plansInProgress'[planId] = plansInProgress[planId]
                \/ /\ plansInProgress[planId].status = "pending"
                   /\ IsFinal(plansInProgress'[planId])
    /\ planId \in issued' => planId \in DOMAIN plansInProgress'

C9_NotFoundIffNeverIssued ==
    \A planId \in StatusParams :
       (StatusReply(planId).code = 404) <=> (planId \notin issued)

\* the last frame written is a terminal one and the transport is closed
Closed ==
    /\ ended
    /\ Len(events) > 0
    /\ IsTerminal(events[Len(events)])

\* C10: when the stream of a valid streaming request settles (it fails to
\* open, raises or completes), the request comes to have a terminal frame as
\* its last frame and the transport closed; the terminal frame and the close
\* come in one step, and nothing is written once the transport is closed.
C10_TerminalThenClose ==
    /\ (pc = "opening") ~> Closed
    /\ [](TerminalIndexes # {} => ended)
    /\ [][ended => (ended' /\ events' = events)]_vars

\* a legacy request closed after one chunk frame and its done frame
C10_Witness ==
    /\ endpoint = "/plan/stream"
    /\ Closed
    /\ Len(events) = 2
    /\ IsDone(events[2])

\* C11: at every moment (after every turn of the loop, and when the stream
\* has completed or raised) the accumulator, which is the text the handler
\* cleans and parses when the stream completes, is the fragments taken so far
\* concatenated in the order they came, and is the concatenation of the texts
\* of the delta frames written so far, as the client reads them.
C11_AccumulatorIsConcatenation ==
    /\ buffer = Flatten(taken)
    /\ buffer = Flatten(DeltaTexts)

\* the three fragments of the fenced plan were taken, and the stream completed
C11_Witness ==
    /\ upstream = "completed"
    /\ taken = <<FragA, FragB, FragC>>
    /\ buffer = FragA \o FragB \o FragC
    /\ IsDone(events[Len(events)])

\* C12: in every done frame of POST /plan the ids of the tasks are pairwise
\* distinct, whether a task came with an id of its own or got task-<idx>.
C12_TaskIdsDistinct ==
    \A e \in DoneIndexes :
       \A i, j \in 1..Len(events[e].tasks) :
          i # j => events[e].tasks[i].id # events[e].tasks[j].id

\* C13: in every done frame of POST /plan the priority of every task is low,
\* medium or high, whatever priority the task came with, if any.
C13_PriorityInEnum ==
    \A e \in DoneIndexes :
       \A i \in 1..Len(events[e].tasks) :
          events[e].tasks[i].priority \in randomPriority

\* the parsed value has no tasks member
NoTasksField(v) ==
    v.t # "object" \/ \A i \in 1..Len(v.members) : v.members[i].k # K_tasks

\* C14: when the stream has ended and the cleaned output is JSON without a
\* tasks field, the last frame of the streaming request is a done frame with
\* an empty task list.
C14_NoTasksFieldGivesEmptyDone ==
    upstream = "completed" =>
       LET r == JSONParse(Clean(buffer))
       IN  (r.ok /\ NoTasksField(r.v)) =>
              /\ IsDone(events[Len(events)])
              /\ events[Len(events)].tasks = <<>>

\* the text holds three backticks in a row
HasFence(t) == \E i \in 1..(Len(t) - 2) : SubSeq(t, i, i + 2) = Fence

\* C15: cleaning is idempotent: once the handler has cleaned the text it
\* accumulated, cleaning the cleaned text again gives the same text, and the
\* cleaned text holds no fence.
C15_CleanIdempotent ==
    upstream = "completed" =>
       /\ cleaned = Clean(buffer)
       /\ Clean(cleaned) = cleaned
       /\ ~HasFence(cleaned)

\* four backticks, the word json and three backticks were cleaned to one
\* backtick
C15_Witness ==
    /\ upstream = "completed"
    /\ buffer = <<Backtick>> \o Fence \o <<"J", "s", "O", "N">> \o Fence
    /\ cleaned = <<Backtick>>

\* two task objects of a done frame carry the same title, or both none
SameTitle(a, b) ==
    /\ ("title" \in DOMAIN a) = ("title" \in DOMAIN b)
    /\ "title" \in DOMAIN a => a.title = b.title

\* two terminal frames are of the same kind and, when done, carry as many
\* tasks with the same titles in the same order
SameOutcome(e, f) ==
    /\ IsDone(e) = IsDone(f)
    /\ IsError(e) = IsError(f)
    /\ IsDone(e) =>
          /\ Len(e.tasks) = Len(f.tasks)
          /\ \A i \in 1..Len(e.tasks) : SameTitle(e.tasks[i], f.tasks[i])

\* C16: a plan J delivered inside a json fence or a plain fence, in
\* fragments cut anywhere, is cleaned to the text that J delivered bare is
\* cleaned to, and ends with a terminal frame of the same kind with the same
\* number of tasks and the same titles in the same order.
C16_FenceTransparent ==
    upstream = "completed" =>
       \A J \in WrapDocs :
          buffer \in Wrappings(J) =>
             /\ cleaned = Clean(J)
             /\ \A bare \in PlanTerminalEvents(J, body.horizon) :
                   SameOutcome(events[Len(events)], bare)

\* the two tasks arrived inside a json fence that was cut in the middle of
\* its opening marker, and came out in their order
C16_Witness ==
    /\ upstream = "completed"
    /\ taken = <<<<Backtick, Backtick>>,
                 SubSeq(JsonFenced(DocTwoTasks), 3, Len(JsonFenced(DocTwoTasks)))>>
    /\ cleaned = DocTwoTasks
    /\ IsDone(events[3])
    /\ Len(events[3].tasks) = 2
    /\ events[3].tasks[1].title = JStr(<<"b">>)
    /\ events[3].tasks[2].title = JStr(<<"a">>)

\* every entry a generation can end with, by horizon
Outcomes ==
    [horizon \in Horizons \ {Missing, ""} |->
        {FailedEntry("upstream error")}
        \cup UNION {BackgroundEntries(text, horizon) : text \in BackgroundTexts}]

\* a step that changes the entry of planId is the step in which the
\* generation of planId settles; it writes one of that generation's outcomes
\* and leaves every other entry and every other generation as it was
C17_OwnWrite(planId) ==
    (planId \in DOMAIN plansInProgress
        /\ plansInProgress'[planId] # plansInProgress[planId])
    => /\ planId \in DOMAIN background
       /\ planId \notin DOMAIN background'
       /\ plansInProgress'[planId] \in Outcomes[background[planId]]
       /\ \A other \in DOMAIN plansInProgress \ {planId} :
             plansInProgress'[other] = plansInProgress[other]
       /\ \A other \in DOMAIN background \ {planId} :
             /\ other \in DOMAIN background'
             /\ background'[other] = background[other]

\* a generation that settles changes its own entry
C17_Settles(planId) ==
    (planId \in DOMAIN background /\ planId \notin DOMAIN background')
    => plansInProgress'[planId] # plansInProgress[planId]

\* a step that issues a planId issues one that no request got before and
\* that has no entry yet
C17_FreshPlanId ==
    issued' # issued =>
       \E planId \in PlanIds :
          /\ planId \notin issued
          /\ planId \notin DOMAIN plansInProgress
          /\ issued' = issued \cup {planId}
          /\ startResponse'.planId = planId
          /\ \A other \in DOMAIN plansInProgress :
                plansInProgress'[other] = plansInProgress[other]

\* C17: with several generations in flight, each one writes only the entry
\* of its own planId, in the step in which it settles, and writes its own
\* outcome; every other entry is unchanged by that write; and distinct
\* requests get distinct planIds.
C17_OwnEntryOnly ==
    [][/\ \A planId \in PlanIds : C17_OwnWrite(planId) /\ C17_Settles(planId)
       /\ C17_FreshPlanId]_vars

\* the second generation has failed while the first is still running, its
\* entry still pending
C17_Witness ==
    /\ issued = {Uuid(1), Uuid(2)}
    /\ DOMAIN background = {Uuid(1)}
    /\ plansInProgress[Uuid(1)] = PendingEntry
    /\ plansInProgress[Uuid(2)].status = "error"

\* C20: in the step in which POST /plan/start answers {planId, status:
\* "pending"}, the entry of that planId is in the store and is pending: GET
\* /plan/status/planId, asked next, answers what the response said.
C20_ResponseAgreesWithStore ==
    [][issued' # issued =>
          \A planId \in issued' \ issued :
             /\ startResponse' = [code |-> 200, planId |-> planId, status |-> "pending"]
             /\ planId \in DOMAIN plansInProgress'
             /\ plansInProgress'[planId].status = startResponse'.status]_vars

\* the parsed value is an object whose tasks member is an array
HasTasksArray(v) ==
    /\ v.t = "object"
    /\ \E i \in 1..Len(v.members) : v.members[i].k = K_tasks
    /\ Get(v, K_tasks).t = "array"

\* the status of the one response of a finished buffered request, by case.
\* early: a handler that throws before it calls the model counts with the
\* requests whose model call raised
C19_ByCase(code, early) ==
    IF Falsy(body.goal) \/ Falsy(body.horizon) THEN code = 400
    ELSE IF upstream = "failed" \/ (early /\ upstream = "none") THEN code = 500
    ELSE LET r == JSONParse(Clean(buffer))
         IN  IF upstream = "completed" /\ ~(r.ok /\ HasTasksArray(r.v))
             THEN code = 502
             ELSE /\ code = 200
                  /\ responses[1].data = r.v

C19_OneResponse(early) ==
    /\ Len(responses) <= 1
    /\ pc \in {"rejected", "closed"} =>
          /\ Len(responses) = 1
          /\ C19_ByCase(responses[1].code, early)
    /\ \A i \in 1..Len(responses) :
          responses[i].code = 200 => HasTasksArray(responses[i].data)

\* C19, as stated: a buffered request never has more than one response and
\* has one when its handler is over: 400 when goal or horizon is missing, 500
\* when the model call raised, 502 when the cleaned text is no JSON or has no
\* tasks array, 200 with the parsed document in every other case; a 200
\* response carries a tasks member that is an array.
C19_AsStated == C19_OneResponse(FALSE)

\* C19, amended: the same, with 500 also when the handler throws before it
\* calls the model (the prompt cannot be built from the goal).
C19_OneResponseByCase == C19_OneResponse(TRUE)

\* the two tasks came in a json fence and were sent back with 200
C19_Witness ==
    /\ endpoint = Buffered
    /\ buffer = JsonFenced(DocTwoTasks)
    /\ Len(responses) = 1
    /\ responses[1].code = 200
    /\ Len(Get(responses[1].data, K_tasks).items) = 2

\* C18: a request calls the model at most once on every path: the streaming,
\* legacy streaming and buffered handlers make at most one call, each planId
\* has at most one call of generateContent, and a request that has come to
\* its outcome (after a failure or an unparseable text as well) has no call
\* in flight.
C18_AtMostOneCall ==
    /\ calls <= 1
    /\ \A planId \in DOMAIN generateCalls : generateCalls[planId] <= 1
    /\ pc \in {"rejected", "crashed", "closed"} => upstream \notin {"opening", "open"}
    /\ \A planId \in DOMAIN plansInProgress :
          plansInProgress[planId].status # "pending" => planId \notin DOMAIN background

\* a streaming request whose stream raised after a delta has its error frame
\* and has made one call
C18_Witness ==
    /\ upstream = "raised"
    /\ pc = "closed"
    /\ Len(events) = 2
    /\ IsError(events[2])
    /\ calls = 1

====
